---- MODULE Spec2Model ----
(***************************************************************************)
(* The preprocessing pipeline and the batch iterator of Sentiment_RNN.ipynb *)
(* (text normalisation, vocabulary, encoding, empty-review filter, fixed    *)
(* length framing, train/validation/test split, get_batches).               *)
(*                                                                          *)
(* A Python str is modelled as a sequence of one-character strings, a list  *)
(* or a numpy array as a sequence, a dict as a function.  Every notebook    *)
(* cell is one action; get_batches is a generator and takes one step per    *)
(* request for a batch.                                                     *)
(***************************************************************************)
EXTENDS Integers, Sequences, FiniteSets, TLC

VARIABLES
    pc,            \* the last pipeline cell that has run
    reviews_txt,   \* contents of reviews.txt
    labels_txt,    \* contents of labels.txt
    reviews,       \* the name `reviews`: file contents, then list of reviews
    all_text,
    words,
    counts,
    vocab,
    vocab_to_int,
    reviews_ints,
    labels,        \* the name `labels`: file contents, then the 0/1 array
    features,
    train_x, val_x, test_x,
    train_y, val_y, test_y,
    gen,           \* the generator object of the latest get_batches call
    batches        \* the pairs that generator has yielded so far, in order

vars == <<pc, reviews_txt, labels_txt, reviews, all_text, words, counts, vocab,
          vocab_to_int, reviews_ints, labels, features, train_x, val_x, test_x,
          train_y, val_y, test_y, gen, batches>>

----------------------------------------------------------------------------
(* Bounds of the model *)

MaxLines == 2      \* lines of reviews.txt / labels.txt
MaxLineLen == 2    \* characters per line of reviews.txt
MaxWords == 4      \* tokens of the flat token list (vocabulary inputs)
MaxReviews == 2    \* encoded reviews handed to the filter and the framer
MaxShort == 2      \* short encoded reviews have 0..MaxShort ids
Near == 2          \* long encoded reviews have seq_len-Near..seq_len+Near ids
MaxVocab == 3      \* ids used in generated encoded reviews
MaxRows == 12      \* rows of the framed matrix handed to the splitter
MaxExtra == 1      \* labels left over from dropped empty reviews
MaxBatch == 4      \* largest batch_size passed to get_batches
NegBatch == 2      \* smallest batch_size passed to get_batches is -NegBatch
MaxChars == 5      \* characters of reviews.txt when drawn character by character

(* Program constants *)

seq_len == 200

----------------------------------------------------------------------------
(* Python built-ins used by the notebook *)

Range(s) == {s[i] : i \in DOMAIN s}

BoundedSeq(S, n) == UNION {[1..k -> S] : k \in 0..n}

Min(a, b) == IF a < b THEN a ELSE b
Max(a, b) == IF a > b THEN a ELSE b

\* string.punctuation (its backquote character cannot be written in a TLA+
\* string and is left out; no modelled input contains it)
punctuation == {"!", "\"", "#", "$", "%", "&", "'", "(", ")", "*", "+", ",",
                "-", ".", "/", ":", ";", "<", "=", ">", "?", "@", "[", "\\",
                "]", "^", "_", "{", "|", "}", "~"}

\* the characters str.split() with no argument treats as separators
whitespace == {" ", "\t", "\n", "\r", "\f"}

\* s.split(sep) for a one-character sep: one more piece than separators,
\* empty pieces kept
RECURSIVE split(_, _)
split(s, sep) ==
    IF \A i \in 1..Len(s) : s[i] # sep
    THEN <<s>>
    ELSE LET i == CHOOSE k \in 1..Len(s) :
                      s[k] = sep /\ \A j \in 1..(k-1) : s[j] # sep
         IN  <<SubSeq(s, 1, i-1)>> \o split(SubSeq(s, i+1, Len(s)), sep)

\* s.split(): pieces between runs of whitespace, no empty pieces
RECURSIVE split_ws(_)
split_ws(s) ==
    IF Len(s) = 0 THEN <<>>
    ELSE IF s[1] \in whitespace THEN split_ws(Tail(s))
    ELSE LET stops == {k \in 1..Len(s) : s[k] \in whitespace}
             n == IF stops = {} THEN Len(s) + 1
                  ELSE CHOOSE k \in stops : \A j \in stops : k <= j
         IN  <<SubSeq(s, 1, n-1)>> \o split_ws(SubSeq(s, n, Len(s)))

\* sep.join(list)
RECURSIVE join(_, _)
join(sep, list) ==
    IF Len(list) = 0 THEN <<>>
    ELSE IF Len(list) = 1 THEN list[1]
    ELSE list[1] \o <<sep>> \o join(sep, Tail(list))

\* a // b, flooring towards minus infinity, b # 0
FloorDiv(a, b) == IF b > 0 THEN a \div b ELSE (0 - a) \div (0 - b)

\* s[lo:hi] with Python's handling of negative and out-of-range bounds
PySlice(s, lo, hi) ==
    LET norm(i) == IF i < 0 THEN Max(i + Len(s), 0) ELSE Min(i, Len(s))
    IN  SubSeq(s, norm(lo) + 1, norm(hi))

\* s[k:] taken one element late, as s[k+1:]
SliceFromSkip(s, k) == PySlice(s, k + 1, Len(s))

\* s[:k] and s[k:]
SliceTo(s, k) == PySlice(s, 0, k)
SliceFrom(s, k) == PySlice(s, k, Len(s))

\* range(0, stop, step) contains i (i is 0 plus a multiple of step)
InRange(i, stop, step) == IF step > 0 THEN i < stop ELSE i > stop

----------------------------------------------------------------------------
(* Text normalisation *)

\* ''.join([c for c in reviews if c not in punctuation])
strip_punctuation(s) == SelectSeq(s, LAMBDA c : c \notin punctuation)

\* the reviews run together without a separator, as ''.join(reviews)
join_reviews_nosep(revs) ==
    SelectSeq(join("\n", revs), LAMBDA c : c # "\n")

\* ' '.join(reviews)
join_reviews(revs) == join(" ", revs)

Normalize ==
    /\ pc = "loaded"
    /\ LET stripped == strip_punctuation(reviews)
           revs == split(stripped, "\n")
           text == join_reviews(revs)
       IN  /\ reviews' = revs
           /\ all_text' = text
           /\ words' = split_ws(text)
    /\ pc' = "normalized"
    /\ UNCHANGED <<reviews_txt, labels_txt, counts, vocab, vocab_to_int,
                   reviews_ints, labels, features, train_x, val_x, test_x,
                   train_y, val_y, test_y, gen, batches>>

----------------------------------------------------------------------------
(* Vocabulary and encoding *)

\* Counter(words)
Counter(ws) ==
    [w \in Range(ws) |-> Cardinality({i \in DOMAIN ws : ws[i] = w})]

\* the keys by ascending count, as sorted() without reverse=True
sorted_vocab_asc(c) ==
    LET n == Cardinality(DOMAIN c)
    IN  {v \in [1..n -> DOMAIN c] :
            /\ \A i, j \in 1..n : i # j => v[i] # v[j]
            /\ \A i \in 1..(n-1) : c[v[i]] <= c[v[i+1]]}

\* sorted(counts, key=counts.get, reverse=True): the keys by descending count.
\* Keys with equal counts keep the iteration order of the Counter, which the
\* notebook does not control: every order of the ties is admitted.
sorted_vocab(c) ==
    LET n == Cardinality(DOMAIN c)
    IN  {v \in [1..n -> DOMAIN c] :
            /\ \A i, j \in 1..n : i # j => v[i] # v[j]
            /\ \A i \in 1..(n-1) : c[v[i]] >= c[v[i+1]]}

\* ids counted from 0, as {word: ii for ii, word in enumerate(vocab)}
make_vocab_to_int_zero(v) ==
    [w \in Range(v) |-> CHOOSE ii \in 0..(Len(v)-1) : v[ii+1] = w]

\* {word: ii+1 for ii, word in enumerate(vocab)}
make_vocab_to_int(v) ==
    [w \in Range(v) |-> (CHOOSE ii \in 0..(Len(v)-1) : v[ii+1] = w) + 1]

\* [vocab_to_int[word] for word in each.split()]
encode(v2i, each) ==
    LET ws == split_ws(each) IN [k \in 1..Len(ws) |-> v2i[ws[k]]]

\* len(vocab_to_int) + 1
n_words == Cardinality(DOMAIN vocab_to_int) + 1

Encode ==
    /\ pc = "normalized"
    /\ counts' = Counter(words)
    /\ \E v \in sorted_vocab(Counter(words)) :
          LET v2i == make_vocab_to_int(v)
              miss == \E i \in 1..Len(reviews) :
                          \E w \in Range(split_ws(reviews[i])) :
                              w \notin DOMAIN v2i
          IN  /\ vocab' = v
              /\ vocab_to_int' = v2i
              /\ IF miss
                 THEN /\ pc' = "KeyError"
                      /\ UNCHANGED reviews_ints
                 ELSE /\ pc' = "encoded"
                      /\ reviews_ints' =
                            [i \in 1..Len(reviews) |-> encode(v2i, reviews[i])]
    /\ UNCHANGED <<reviews_txt, labels_txt, reviews, all_text, words, labels,
                   features, train_x, val_x, test_x, train_y, val_y, test_y,
                   gen, batches>>

\* the literal 'positive'
positive == <<"p", "o", "s", "i", "t", "i", "v", "e">>
negative == <<"n", "e", "g", "a", "t", "i", "v", "e">>

\* np.array([1 if each == 'positive' else 0 for each in labels])
encode_labels(ls) == [i \in 1..Len(ls) |-> IF ls[i] = positive THEN 1 ELSE 0]

EncodeLabels ==
    /\ pc = "encoded"
    /\ labels' = encode_labels(split(labels, "\n"))
    /\ pc' = "labelled"
    /\ UNCHANGED <<reviews_txt, labels_txt, reviews, all_text, words, counts,
                   vocab, vocab_to_int, reviews_ints, features, train_x, val_x,
                   test_x, train_y, val_y, test_y, gen, batches>>

----------------------------------------------------------------------------
(* Empty-review filter and fixed-length framing *)

\* [each for each in reviews_ints if len(each)!=0]
filter_nonempty(rs) == SelectSeq(rs, LAMBDA each : Len(each) # 0)

Filter ==
    /\ pc = "labelled"
    /\ reviews_ints' = filter_nonempty(reviews_ints)
    /\ pc' = "filtered"
    /\ UNCHANGED <<reviews_txt, labels_txt, reviews, all_text, words, counts,
                   vocab, vocab_to_int, labels, features, train_x, val_x,
                   test_x, train_y, val_y, test_y, gen, batches>>

\* a long review kept whole, as features[i] = each
frame_row_notrunc(each) ==
    IF Len(each) >= 200
    THEN each
    ELSE LET diff == 200 - Len(each)
         IN  [j \in 1..seq_len |-> IF j > diff THEN each[j - diff] ELSE 0]

\* a short review placed at the start of the row, as
\* features[i, :len(each)] = each
frame_row_rightpad(each) ==
    IF Len(each) >= 200
    THEN SliceTo(each, 200)
    ELSE [j \in 1..seq_len |-> IF j <= Len(each) THEN each[j] ELSE 0]

\* one row of np.zeros((n, seq_len), dtype=int) after the loop body has run
\* for the review `each`
frame_row(each) ==
    IF Len(each) >= 200
    THEN SliceTo(each, 200)
    ELSE LET diff == 200 - Len(each)
         IN  [j \in 1..seq_len |-> IF j > diff THEN each[j - diff] ELSE 0]

frame(rs) == [i \in 1..Len(rs) |-> frame_row(rs[i])]

Frame ==
    /\ pc = "filtered"
    /\ features' = frame(reviews_ints)
    /\ pc' = "framed"
    /\ UNCHANGED <<reviews_txt, labels_txt, reviews, all_text, words, counts,
                   vocab, vocab_to_int, reviews_ints, labels, train_x, val_x,
                   test_x, train_y, val_y, test_y, gen, batches>>

----------------------------------------------------------------------------
(* Train / validation / test split *)

\* the product rounded up instead of truncated
split_idx_ceil(n) == (8 * n + 9) \div 10

\* int(len(features)*0.8): the double nearest 0.8 is above 0.8 and len is far
\* below 2^50, so the truncated product is floor(8*n/10)
split_idx(n) == (8 * n) \div 10

\* int(len(val_x)*0.5): 0.5 is exact
test_idx(n) == (5 * n) \div 10

Split ==
    /\ pc = "framed"
    /\ LET si == split_idx(Len(features))
           vx == SliceFrom(features, si)
           vy == SliceFrom(labels, si)
           ti == test_idx(Len(vx))
       IN  /\ train_x' = SliceTo(features, si)
           /\ train_y' = SliceTo(labels, si)
           /\ val_x' = SliceTo(vx, ti)
           /\ test_x' = SliceFrom(vx, ti)
           /\ val_y' = SliceTo(vy, ti)
           /\ test_y' = SliceFrom(vy, ti)
    /\ pc' = "split"
    /\ UNCHANGED <<reviews_txt, labels_txt, reviews, all_text, words, counts,
                   vocab, vocab_to_int, reviews_ints, labels, features, gen,
                   batches>>

----------------------------------------------------------------------------
(* get_batches: a generator function.  Calling it only creates the generator *)
(* object; its body runs, up to the next yield, at each request for a batch. *)

NoGen == [st |-> "none", of |-> "none", x |-> <<>>, y |-> <<>>,
          batch_size |-> 1, ii |-> 0]

\* the arrays passed at the call sites
SplitX(name) == CASE name = "train" -> train_x
                  [] name = "val" -> val_x
                  [] name = "test" -> test_x
SplitY(name) == CASE name = "train" -> train_y
                  [] name = "val" -> val_y
                  [] name = "test" -> test_y

BatchSizes == (0 - NegBatch)..MaxBatch

\* n_batches = len(x)//batch_size
n_batches(x, batch_size) == FloorDiv(Len(x), batch_size)

\* the rows past the last full batch kept
full_batches_all(x, nb, batch_size) == x

\* x[:n_batches*batch_size]
full_batches(x, nb, batch_size) == SliceTo(x, nb * batch_size)

\* the slice counted back from the end of the array, as
\* x[len(x)-ii-batch_size:len(x)-ii]
batch_slice_from_end(x, ii, batch_size) ==
    PySlice(x, Len(x) - ii - batch_size, Len(x) - ii)

\* x[ii:ii+batch_size]
batch_slice(x, ii, batch_size) == PySlice(x, ii, ii + batch_size)

\* get_batches(train_x, train_y, batch_size) and the like: no line of the body
\* runs yet.  One generator object is followed at a time: the next call is
\* taken once the previous generator has finished.
GetBatches ==
    /\ pc = "split"
    /\ gen.st \in {"none", "done", "raised"}
    /\ \E name \in {"train", "val", "test"}, bs \in BatchSizes :
          gen' = [st |-> "created", of |-> name, x |-> SplitX(name),
                  y |-> SplitY(name), batch_size |-> bs, ii |-> 0]
    /\ batches' = <<>>
    /\ UNCHANGED <<pc, reviews_txt, labels_txt, reviews, all_text, words,
                   counts, vocab, vocab_to_int, reviews_ints, labels, features,
                   train_x, val_x, test_x, train_y, val_y, test_y>>

\* the first request: the body runs from its first line to the first yield,
\* to the end of an empty loop, or to the ZeroDivisionError of len(x)//0
FirstBatch ==
    /\ gen.st = "created"
    /\ IF gen.batch_size = 0
       THEN /\ gen' = [gen EXCEPT !.st = "raised"]
            /\ UNCHANGED batches
       ELSE LET nb == n_batches(gen.x, gen.batch_size)
                x == full_batches(gen.x, nb, gen.batch_size)
                y == full_batches(gen.y, nb, gen.batch_size)
            IN  IF InRange(0, Len(x), gen.batch_size)
                THEN /\ gen' = [gen EXCEPT !.st = "suspended", !.x = x,
                                           !.y = y, !.ii = 0]
                     /\ batches' = Append(batches,
                           [x |-> batch_slice(x, 0, gen.batch_size),
                            y |-> batch_slice(y, 0, gen.batch_size)])
                ELSE /\ gen' = [gen EXCEPT !.st = "done", !.x = x, !.y = y]
                     /\ UNCHANGED batches
    /\ UNCHANGED <<pc, reviews_txt, labels_txt, reviews, all_text, words,
                   counts, vocab, vocab_to_int, reviews_ints, labels, features,
                   train_x, val_x, test_x, train_y, val_y, test_y>>

\* a later request: the loop advances ii by batch_size and yields the next
\* slices, or range() is exhausted and the generator returns
NextBatch ==
    /\ gen.st = "suspended"
    /\ LET ii == gen.ii + gen.batch_size
       IN  IF InRange(ii, Len(gen.x), gen.batch_size)
           THEN /\ gen' = [gen EXCEPT !.ii = ii]
                /\ batches' = Append(batches,
                      [x |-> batch_slice(gen.x, ii, gen.batch_size),
                       y |-> batch_slice(gen.y, ii, gen.batch_size)])
           ELSE /\ gen' = [gen EXCEPT !.st = "done"]
                /\ UNCHANGED batches
    /\ UNCHANGED <<pc, reviews_txt, labels_txt, reviews, all_text, words,
                   counts, vocab, vocab_to_int, reviews_ints, labels, features,
                   train_x, val_x, test_x, train_y, val_y, test_y>>

----------------------------------------------------------------------------
(* The whole pipeline, from the two files as read *)

LineChars == {"a", "b", ".", " "}

Lines == BoundedSeq(LineChars, MaxLineLen)

\* with open(...) as f: reviews = f.read() / labels = f.read(), for files with
\* the same number of lines
Init ==
    /\ \E k \in 1..MaxLines :
          \E ls \in [1..k -> Lines], lb \in [1..k -> {positive, negative}] :
             /\ reviews_txt = join("\n", ls)
             /\ labels_txt = join("\n", lb)
    /\ reviews = reviews_txt
    /\ labels = labels_txt
    /\ pc = "loaded"
    /\ all_text = <<>>
    /\ words = <<>>
    /\ counts = <<>>
    /\ vocab = <<>>
    /\ vocab_to_int = <<>>
    /\ reviews_ints = <<>>
    /\ features = <<>>
    /\ train_x = <<>> /\ val_x = <<>> /\ test_x = <<>>
    /\ train_y = <<>> /\ val_y = <<>> /\ test_y = <<>>
    /\ gen = NoGen
    /\ batches = <<>>

Next ==
    \/ Normalize
    \/ Encode
    \/ EncodeLabels
    \/ Filter
    \/ Frame
    \/ Split

Spec == Init /\ [][Next]_vars

----------------------------------------------------------------------------
(* The vocabulary builder and the encoder on longer token lists: the state  *)
(* after the normalisation cell for a two-line corpus of up to MaxWords     *)
(* tokens without punctuation.                                              *)

Tokens == {<<"a">>, <<"b">>, <<"a", "b">>}

InitVocab ==
    /\ \E ws \in BoundedSeq(Tokens, MaxWords) :
          \E cut \in 0..Len(ws) :
             reviews = << join(" ", SubSeq(ws, 1, cut)),
                          join(" ", SubSeq(ws, cut + 1, Len(ws))) >>
    /\ reviews_txt = join("\n", reviews)
    /\ all_text = join(" ", reviews)
    /\ words = split_ws(all_text)
    /\ labels_txt = join("\n", <<positive, negative>>)
    /\ labels = labels_txt
    /\ pc = "normalized"
    /\ counts = <<>>
    /\ vocab = <<>>
    /\ vocab_to_int = <<>>
    /\ reviews_ints = <<>>
    /\ features = <<>>
    /\ train_x = <<>> /\ val_x = <<>> /\ test_x = <<>>
    /\ train_y = <<>> /\ val_y = <<>> /\ test_y = <<>>
    /\ gen = NoGen
    /\ batches = <<>>

NextVocab == Encode \/ EncodeLabels

SpecVocab == InitVocab /\ [][NextVocab]_vars

----------------------------------------------------------------------------
(* The filter and the framer on encoded reviews shorter than, as long as    *)
(* and longer than seq_len: the state after the label cell.  The two cells  *)
(* read reviews_ints only; the text the ids came from is not carried.       *)

ReviewLens == (0..MaxShort) \cup ((seq_len - Near)..(seq_len + Near))

\* an encoded review of n ids from 1..MaxVocab, no two neighbours equal
review_of(n, b) == [i \in 1..n |-> ((i + b) % MaxVocab) + 1]

EncodedReviews == {review_of(n, b) : n \in ReviewLens, b \in 0..(MaxVocab-1)}

InitFrame ==
    /\ reviews_ints \in BoundedSeq(EncodedReviews, MaxReviews)
    /\ labels = [i \in 1..Len(reviews_ints) |-> i % 2]
    /\ pc = "labelled"
    /\ reviews_txt = <<>>
    /\ labels_txt = <<>>
    /\ reviews = <<>>
    /\ all_text = <<>>
    /\ words = <<>>
    /\ counts = <<>>
    /\ vocab = <<>>
    /\ vocab_to_int = <<>>
    /\ features = <<>>
    /\ train_x = <<>> /\ val_x = <<>> /\ test_x = <<>>
    /\ train_y = <<>> /\ val_y = <<>> /\ test_y = <<>>
    /\ gen = NoGen
    /\ batches = <<>>

NextFrame == Filter \/ Frame

SpecFrame == InitFrame /\ [][NextFrame]_vars

----------------------------------------------------------------------------
(* The splitter and the batch iterator on matrices of 0..MaxRows rows: the  *)
(* state after the framing cell.  Row i frames the one-id review <<i>>, so  *)
(* all rows differ; the label array has one entry per line of the files,    *)
(* up to MaxExtra more than the rows when empty reviews were filtered out.  *)

\* label arrays: runs of p equal labels, starting in the run at offset o
label_of(i, p, o) == ((i + o) \div p) % 2

InitSplit ==
    /\ \E n \in 0..MaxRows :
          /\ reviews_ints = [i \in 1..n |-> <<i>>]
          /\ \E e \in 0..MaxExtra, p \in 1..2, o \in 0..1 :
                labels = [i \in 1..(n + e) |-> label_of(i, p, o)]
    /\ features = frame(reviews_ints)
    /\ pc = "framed"
    /\ reviews_txt = <<>>
    /\ labels_txt = <<>>
    /\ reviews = <<>>
    /\ all_text = <<>>
    /\ words = <<>>
    /\ counts = <<>>
    /\ vocab = <<>>
    /\ vocab_to_int = <<>>
    /\ train_x = <<>> /\ val_x = <<>> /\ test_x = <<>>
    /\ train_y = <<>> /\ val_y = <<>> /\ test_y = <<>>
    /\ gen = NoGen
    /\ batches = <<>>

NextSplit ==
    \/ Split
    \/ GetBatches
    \/ FirstBatch
    \/ NextBatch

SpecSplit == InitSplit /\ [][NextSplit]_vars

----------------------------------------------------------------------------
(* The normaliser and the encoder on every corpus of up to MaxChars         *)
(* characters, newlines, tabs and punctuation at any place; labels.txt has  *)
(* one line per line of the corpus.                                         *)

CorpusChars == {"a", "b", ".", " ", "\t", "\n"}

InitText ==
    /\ reviews_txt \in BoundedSeq(CorpusChars, MaxChars)
    /\ labels_txt =
          join("\n", [i \in 1..Len(split(reviews_txt, "\n")) |-> positive])
    /\ reviews = reviews_txt
    /\ labels = labels_txt
    /\ pc = "loaded"
    /\ all_text = <<>>
    /\ words = <<>>
    /\ counts = <<>>
    /\ vocab = <<>>
    /\ vocab_to_int = <<>>
    /\ reviews_ints = <<>>
    /\ features = <<>>
    /\ train_x = <<>> /\ val_x = <<>> /\ test_x = <<>>
    /\ train_y = <<>> /\ val_y = <<>> /\ test_y = <<>>
    /\ gen = NoGen
    /\ batches = <<>>

NextText == Normalize \/ Encode

SpecText == InitText /\ [][NextText]_vars

----------------------------------------------------------------------------
(* Properties *)

AfterFilter == pc \in {"filtered", "framed", "split"}

\* C1: after the empty-review filter has run, the number of encoded reviews
\* equals the number of labels, also when reviews normalise to zero tokens
C1_IndexAlignment ==
    AfterFilter => Len(reviews_ints) = Len(labels)

\* the lines of reviews.txt that have at least one token, in order
SurvivingLines ==
    SelectSeq([j \in 1..Len(reviews) |-> j],
              LAMBDA j : Len(split_ws(reviews[j])) # 0)

\* the label that line j of labels.txt stands for
LabelOfLine(j) == IF split(labels_txt, "\n")[j] = positive THEN 1 ELSE 0

\* C2: the label paired with every surviving review, and with every row of
\* the train, validation and test splits, is the label of the line the review
\* came from; an empty review never shifts the pairing of later reviews
C2_LockStepFiltering ==
    /\ AfterFilter =>
          \A k \in 1..Len(reviews_ints) :
             /\ k \in DOMAIN labels
             /\ labels[k] = LabelOfLine(SurvivingLines[k])
    /\ pc = "split" =>
          /\ \A k \in 1..Len(train_x) :
                /\ k \in DOMAIN train_y
                /\ train_y[k] = LabelOfLine(SurvivingLines[k])
          /\ \A k \in 1..Len(val_x) :
                /\ k \in DOMAIN val_y
                /\ val_y[k] = LabelOfLine(SurvivingLines[Len(train_x) + k])
          /\ \A k \in 1..Len(test_x) :
                /\ k \in DOMAIN test_y
                /\ test_y[k] =
                      LabelOfLine(SurvivingLines[Len(train_x) + Len(val_x) + k])

\* C3: the train, validation and test feature sets are contiguous pieces of
\* the framed matrix in its order; concatenated they are the matrix, so no
\* row is lost or duplicated and the sizes add up
C3_PartitionExact ==
    pc = "split" =>
       /\ train_x \o val_x \o test_x = features
       /\ Len(train_x) + Len(val_x) + Len(test_x) = Len(features)

C3_Witness ==
    /\ pc = "split"
    /\ Len(features) = 7
    /\ Len(train_x) > 0 /\ Len(val_x) > 0 /\ Len(test_x) > 0

\* the rows a generator was given at its call
GivenX == SplitX(gen.of)

\* C4: for batch_size >= 1 every yielded feature slice and label slice has
\* exactly batch_size rows, the generator stops after floor(n / batch_size)
\* batches, and the trailing n mod batch_size rows are never yielded
C4_BatchCompleteness ==
    (gen.st \in {"suspended", "done"} /\ gen.batch_size >= 1) =>
       LET n == Len(GivenX)
           full == n \div gen.batch_size
       IN  /\ \A k \in 1..Len(batches) :
                 /\ Len(batches[k].x) = gen.batch_size
                 /\ Len(batches[k].y) = gen.batch_size
           /\ Len(batches) <= full
           /\ gen.st = "done" => Len(batches) = full
           /\ \A k \in 1..Len(batches) :
                 \A j \in (full * gen.batch_size + 1)..n :
                    GivenX[j] \notin Range(batches[k].x)

C4_Witness ==
    /\ gen.st = "done"
    /\ gen.batch_size = 3
    /\ Len(GivenX) = 7
    /\ Len(batches) = 2

\* C5: the framed matrix has one row per surviving encoded review, no
\* surviving review is empty, and every row has exactly seq_len entries
\* (witness: a review longer than seq_len framed after an empty one was dropped)
C5_RowLength ==
    pc = "framed" =>
       /\ Len(features) = Len(reviews_ints)
       /\ \A i \in 1..Len(reviews_ints) : Len(reviews_ints[i]) > 0
       /\ \A i \in 1..Len(features) : Len(features[i]) = seq_len

C5_Witness ==
    /\ pc = "framed"
    /\ \E i \in 1..Len(reviews_ints) : Len(reviews_ints[i]) > seq_len
    /\ Len(labels) > Len(features)

\* zeros(n): n padding ids
zeros(n) == [j \in 1..n |-> 0]

\* C6: a review of seq_len ids or more is framed as its first seq_len ids; a
\* shorter review as seq_len - len zeros followed by all its ids
C6_FramingReference ==
    pc = "framed" =>
       \A i \in 1..Len(reviews_ints) :
          LET r == reviews_ints[i]
          IN  IF Len(r) >= seq_len
              THEN features[i] = SubSeq(r, 1, seq_len)
              ELSE features[i] = zeros(seq_len - Len(r)) \o r

C6_Witness ==
    /\ pc = "framed"
    /\ \E i, j \in 1..Len(reviews_ints) :
          /\ Len(reviews_ints[i]) = seq_len + 1
          /\ features[i][seq_len] = reviews_ints[i][seq_len]
          /\ Len(reviews_ints[j]) = 1
          /\ features[j][seq_len] = reviews_ints[j][1]
          /\ features[j][1] = 0

\* occurrences of token w in the flat token list
Occurrences(w) == Cardinality({i \in DOMAIN words : words[i] = w})

AfterEncode == pc \in {"encoded", "labelled"}

\* C7: the vocabulary maps the distinct tokens of the corpus one-to-one onto
\* 1..V; id 0 is never assigned
C7_VocabularyBijection ==
    AfterEncode =>
       LET V == Cardinality(Range(words))
       IN  /\ DOMAIN vocab_to_int = Range(words)
           /\ {vocab_to_int[w] : w \in DOMAIN vocab_to_int} = 1..V
           /\ \A a, b \in DOMAIN vocab_to_int :
                 a # b => vocab_to_int[a] # vocab_to_int[b]
           /\ \A w \in DOMAIN vocab_to_int : vocab_to_int[w] # 0
           /\ n_words = V + 1

C7_Witness ==
    /\ pc = "encoded"
    /\ Cardinality(Range(words)) = 3
    /\ Len(words) = 4

\* C8: a token that occurs strictly more often than another has the smaller id
C8_FrequencyOrder ==
    AfterEncode =>
       \A a, b \in Range(words) :
          Occurrences(a) > Occurrences(b) => vocab_to_int[a] < vocab_to_int[b]

C8_Witness ==
    /\ pc = "encoded"
    /\ \E a, b \in Range(words) :
          /\ Occurrences(a) > Occurrences(b)
          /\ words[1] = b
          /\ vocab_to_int[a] = 1

\* C9: a batch_size <= 0 is reported at the call of get_batches: no generator
\* exists with such a batch size, none waits to fail at its first request and
\* none finishes with an empty batch sequence
C9_EagerBatchSizeError ==
    gen.st \in {"created", "suspended", "done"} => gen.batch_size >= 1

\* C10: train has floor(0.8 n) rows, validation floor(0.5 (n - train)) rows,
\* test the rest, which is as many rows as validation or one more
C10_SplitSizes ==
    pc = "split" =>
       LET n == Len(features)
           tr == Len(train_x)
           va == Len(val_x)
           te == Len(test_x)
       IN  /\ 10 * tr <= 8 * n /\ 8 * n < 10 * (tr + 1)
           /\ 2 * va <= n - tr /\ n - tr < 2 * (va + 1)
           /\ te = n - tr - va
           /\ te \in {va, va + 1}

C10_Witness ==
    /\ pc = "split"
    /\ Len(features) = 5
    /\ Len(train_x) = 4
    /\ Len(val_x) = 0
    /\ Len(test_x) = 1

\* the labels a generator was given at its call
GivenY == SplitY(gen.of)

\* C11: for batch_size >= 1 the k-th pair yielded (k = 0, 1, ...) is the rows
\* k*batch_size .. (k+1)*batch_size - 1 of the features with the labels at
\* the same indices; the loop index advances by batch_size at each yield, so
\* batches come in increasing order, never overlap and skip no row
C11_BatchOrder ==
    (gen.st \in {"suspended", "done"} /\ gen.batch_size >= 1) =>
       LET bs == gen.batch_size
       IN  /\ \A k \in 1..Len(batches) :
                 /\ k * bs <= Len(GivenX)
                 /\ batches[k].x = SubSeq(GivenX, (k - 1) * bs + 1, k * bs)
                 /\ batches[k].y = SubSeq(GivenY, (k - 1) * bs + 1, k * bs)
           /\ gen.st = "suspended" => gen.ii = (Len(batches) - 1) * bs

C11_Witness ==
    /\ gen.st = "suspended"
    /\ gen.batch_size = 2
    /\ Len(GivenX) = 5
    /\ Len(batches) = 2
    /\ gen.ii = 2
    /\ batches[1].y # batches[2].y

\* the number of newline-delimited reviews in reviews.txt
InputReviews ==
    Cardinality({i \in DOMAIN reviews_txt : reviews_txt[i] = "\n"}) + 1

\* C12: encoding never misses a vocabulary lookup: every word of every review
\* is a key of the vocabulary built from the flat token list of the same
\* corpus, and there is one encoded review per input review, in the same
\* order, holding the ids of that review's words
C12_NoLookupMiss ==
    /\ pc # "KeyError"
    /\ pc = "encoded" =>
          /\ Len(reviews_ints) = InputReviews
          /\ Len(reviews_ints) = Len(reviews)
          /\ \A i \in 1..Len(reviews) :
                LET ws == split_ws(reviews[i])
                IN  /\ Range(ws) \subseteq DOMAIN vocab_to_int
                    /\ Len(reviews_ints[i]) = Len(ws)
                    /\ \A k \in 1..Len(ws) : vocab[reviews_ints[i][k]] = ws[k]

C12_Witness ==
    /\ pc = "encoded"
    /\ Len(reviews) = 2
    /\ "\t" \in Range(reviews[1])
    /\ Len(reviews_ints[1]) = 2
    /\ Len(reviews_ints[2]) = 1

====
